---- MODULE Spec2Model ----
(***************************************************************************)
(* The tunnel control server of cli/src/tunnels/control_server.rs: the     *)
(* accept loop (serve), the per-connection runtime (process_socket: the    *)
(* read task and the write loop), the RPC handlers registered on a         *)
(* connection, and handle_spawn.                                           *)
(***************************************************************************)
EXTENDS Naturals, Sequences, FiniteSets, TLC

\* ------------------------------------------------------------------ bounds
MaxConns == 2         \* connections the accept loop accepts
MaxFrames == 3        \* request frames all clients send together
MaxBytes == 2         \* bytes a spawned child writes to one pipe
MaxLogs == 5          \* lines one install writes to its log sink
MaxLogFrames == 1     \* serve frames sent to a connection that logs installs
MaxCloseFrames == 1   \* request frames sent to connections that then fail

\* ------------------------------------------------------- program constants
SOCKET_CHANNEL_CAP == 4   \* mpsc::channel(4) of SocketSignal
SERVER_CHANNEL_CAP == 4   \* mpsc::channel::<ServerSignal>(4)
HTTP_CHANNEL_CAP == 4     \* the delegated-HTTP out-queue

Conns == 1..MaxConns
SocketIds == {1, 2}

VARIABLES
    \* the accept loop (serve)
    acceptPc,          \* "running" | "returned"
    outcome,           \* the Next returned: "none" | "Respawn" | "Restart" | "Exit"
    lastEvent,         \* the select! branch the accept loop took last
    server_rx,         \* number of ServerSignal::Respawn queued on (tx, rx)
    shutdown_rx,       \* "none" or the ShutdownSignal that fired
    signal_exit,       \* TRUE while serve holds signal_exit (exit_barrier closed)
    port,              \* the tunnel control port: "open" | "closed"
    forwarding,        \* port-forwarding events waiting in forwarding.recv()
    accepted,          \* streams accepted so far
    \* one connection (process_socket), indexed by connection
    stream,            \* the client's side of readhalf: "none"|"open"|"eof"|"err"
    inbound,           \* request frames sent by the client and not yet read
    wire,              \* writehalf: "ok" | "broken"
    outbound,          \* frames written to writehalf, in order
    readPc,            \* position of the read task
    readHold,          \* the value the read task is sending on socket_tx
    writePc,           \* "none" | "running" | "exited"
    socket_q,          \* the socket_tx/socket_rx channel
    http_q,            \* the http_rx channel of DelegatedSimpleHttp
    http_requests,     \* HandlerContext.http_requests: set of [req_id, fid, headers]
    did_update,        \* HandlerContext.did_update
    code_server,       \* HandlerContext.code_server slot: 0 (None) or a handle
    cs_lock,           \* holder of the code_server mutex: 0 or a future's fid
    bridges,           \* ServerMultiplexer: the registered socket_ids
    bridge_in,         \* per socket_id, the bodies handed to the bridge's write
    disposed,          \* TRUE once ctx.dispose() ran
    futs,              \* handler futures spawned by the read task
    \* process-wide
    message_id,        \* MESSAGE_ID_COUNTER
    servers,           \* per connection, editor servers it started or adopted
    sent,              \* request frames sent so far (source of ids and bodies)
    dispatched,        \* per connection, the frames rpc.dispatch was called on
    \* handle_spawn
    spawnPc, child, pipe_out, pipe_err, sink_out, sink_err, emitted, copy_out, copy_err,
    copy_in

acceptVars == <<acceptPc, outcome, lastEvent, server_rx, shutdown_rx, signal_exit,
                port, forwarding, accepted>>
ioVars == <<stream, inbound, wire, outbound>>
loopVars == <<readPc, readHold, writePc, socket_q, http_q>>
ctxVars == <<http_requests, did_update, code_server, cs_lock, bridges, bridge_in,
             disposed, futs>>
globalVars == <<message_id, servers, sent, dispatched>>
spawnVars == <<spawnPc, child, pipe_out, pipe_err, sink_out, sink_err, emitted,
               copy_out, copy_err, copy_in>>
vars == <<acceptVars, ioVars, loopVars, ctxVars, globalVars, spawnVars>>

\* ------------------------------------------------------------------ values
\* A request frame (RPC envelope): id 0 stands for an absent id.
\* seq numbers the frames in the order the clients sent them.
\* hit is set when the frame is dispatched: whether write_message found a
\* bridge for it.
Frame(seq, id, method, i, body, flag) ==
    [seq |-> seq, id |-> id, method |-> method, i |-> i, body |-> body, flag |-> flag,
     hit |-> FALSE]

\* An outbound frame, or a SocketSignal: Send(frame) is the frame itself.
Out(kind, id, res, i) == [kind |-> kind, id |-> id, res |-> res, i |-> i]
NoOut == Out("none", 0, "", 0)
VersionFrame == Out("version", 0, "", 0)
Response(id, res) == Out("response", id, res, 0)
MakeHttpReq(req_id) == Out("makehttpreq", 0, "", req_id)
CloseWith(reason) == Out("CloseWith", 0, reason, 0)
ServerLog(line) == Out("serverlog", 0, "", line)


Upd(f, c, v) == [f EXCEPT ![c] = v]
MaxOf(S) == CHOOSE m \in S : \A k \in S : k <= m

\* ------------------------------------------------------- the method table
Reg(name, kind, handler) == [name |-> name, kind |-> kind, handler |-> handler]
NoReg == Reg("", "none", "")

\* The registrations of process_socket, in source order.
Registrations_ServermsgAsync ==
    << Reg("ping", "sync", "ping"),
       Reg("gethostname", "sync", "gethostname"),
       Reg("serve", "async", "serve"),
       Reg("update", "async", "update"),
       Reg("servermsg", "async", "servermsg"),
       Reg("prune", "sync", "prune"),
       Reg("callserverhttp", "async", "callserverhttp"),
       Reg("forward", "async", "forward"),
       Reg("unforward", "async", "unforward"),
       Reg("acquire_cli", "async", "acquire_cli"),
       Reg("spawn", "duplex", "spawn"),
       Reg("httpheaders", "sync", "httpheaders"),
       Reg("unforward", "sync", "httpbody") >>
Registrations ==
    << Reg("ping", "sync", "ping"),
       Reg("gethostname", "sync", "gethostname"),
       Reg("serve", "async", "serve"),
       Reg("update", "async", "update"),
       Reg("servermsg", "sync", "servermsg"),
       Reg("prune", "sync", "prune"),
       Reg("callserverhttp", "async", "callserverhttp"),
       Reg("forward", "async", "forward"),
       Reg("unforward", "async", "unforward"),
       Reg("acquire_cli", "async", "acquire_cli"),
       Reg("spawn", "duplex", "spawn"),
       Reg("httpheaders", "sync", "httpheaders"),
       Reg("unforward", "sync", "httpbody") >>

\* RpcBuilder keeps its methods in a map keyed by name: registering a name
\* again replaces the earlier entry.
Lookup(name) ==
    LET idx == {k \in DOMAIN Registrations : Registrations[k].name = name}
    IN  IF idx = {} THEN NoReg ELSE Registrations[MaxOf(idx)]

\* Handlers that are one step of the connection's runtime; serve and update
\* take several. For the runtime a spawn or acquire_cli call is one step that
\* ends with its result (SpawnResult or an error); the steps of handle_spawn
\* itself are the Spawn actions below.
OneShot == {"ping", "gethostname", "prune", "servermsg", "httpheaders", "httpbody",
            "forward", "unforward", "callserverhttp", "acquire_cli", "spawn"}
\* Handlers whose result depends on a collaborator that may fail.
Fallible == {"prune", "forward", "unforward", "acquire_cli", "spawn"}

\* A handler future spawned by the read task.
Fut(fid, fr, handler) ==
    [fid |-> fid, id |-> fr.id, h |-> handler, i |-> fr.i, body |-> fr.body,
     flag |-> fr.flag, pc |-> "start", res |-> "", server |-> 0, http |-> "none",
     logs |-> 0]

\* ServerMultiplexer::write_message: FALSE when no bridge is registered.
write_message(c, i) == i \in bridges[c]

\* handle_server_message
handle_server_message(c, fr) ==
    IF write_message(c, fr.i) THEN "ok" ELSE "NoAttachedServer"

\* The servermsg registration: the error of handle_server_message is logged
\* as a warning and Ok(EmptyObject) is returned.
ServerMsgResult_Propagate(r) == r
ServerMsgResult(r) == "ok"

\* The result of a one-shot handler; ok is the outcome of its collaborator.
HandlerResult(c, h, fr, ok) ==
    CASE h = "servermsg" -> ServerMsgResult(handle_server_message(c, fr))
      [] h = "callserverhttp" ->
            IF code_server[c] = 0 THEN "NoAttachedServer"
            ELSE IF ok THEN "ok" ELSE "Wrapped"
      [] h \in Fallible -> IF ok THEN "ok" ELSE "Wrapped"
      [] OTHER -> "ok"

\* The bodies each bridge has been handed, after the handler ran.
BridgeInAfter(c, h, fr) ==
    IF h = "servermsg" /\ write_message(c, fr.i)
    THEN [bridge_in[c] EXCEPT ![fr.i] = Append(@, fr.body)]
    ELSE bridge_in[c]

\* The pending delegated-HTTP table after the handler ran: httpheaders marks
\* the initial response delivered; the HttpBodyParams handler removes the
\* entry when complete is set.
HttpRequestsAfter_IgnoreComplete(c, h, fr) ==
    IF h = "httpbody" THEN {e \in http_requests[c] : e.req_id # fr.i}
    ELSE http_requests[c]
HttpRequestsAfter(c, h, fr) ==
    CASE h = "httpheaders" ->
            {IF e.req_id = fr.i THEN [e EXCEPT !.headers = TRUE] ELSE e :
                e \in http_requests[c]}
      [] h = "httpbody" ->
            IF fr.flag THEN {e \in http_requests[c] : e.req_id # fr.i}
            ELSE http_requests[c]
      [] OTHER -> http_requests[c]

\* What the awaiter of a delegated request sees: the initial response, then,
\* once the entry (the sender) is gone, the end of the body, or an error if
\* no initial response had come.
AwaiterAfter(c, h, fr, ft) ==
    LET mine == {e \in http_requests[c] : e.req_id = fr.i /\ e.fid = ft.fid}
    IN  CASE mine = {} -> ft
          [] h = "httpheaders" /\ ft.http = "wait_headers" ->
                [ft EXCEPT !.http = "wait_body"]
          [] h = "httpbody" /\ fr.flag /\ ft.http = "wait_body" ->
                [ft EXCEPT !.http = "eof"]
          [] h = "httpbody" /\ fr.flag /\ ft.http = "wait_headers" ->
                [ft EXCEPT !.http = "error"]
          [] OTHER -> ft

FutsAfter(c, h, fr) == {AwaiterAfter(c, h, fr, ft) : ft \in futs[c]}

\* -------------------------------------------------------------------- Init
Init ==
    /\ acceptPc = "running" /\ outcome = "none" /\ lastEvent = "none"
    /\ server_rx = 0 /\ shutdown_rx = "none" /\ signal_exit = TRUE
    /\ port = "open" /\ forwarding = 0 /\ accepted = 0
    /\ stream = [c \in Conns |-> "none"]
    /\ inbound = [c \in Conns |-> <<>>]
    /\ wire = [c \in Conns |-> "ok"]
    /\ outbound = [c \in Conns |-> <<>>]
    /\ readPc = [c \in Conns |-> "none"]
    /\ readHold = [c \in Conns |-> NoOut]
    /\ writePc = [c \in Conns |-> "none"]
    /\ socket_q = [c \in Conns |-> <<>>]
    /\ http_q = [c \in Conns |-> <<>>]
    /\ http_requests = [c \in Conns |-> {}]
    /\ did_update = [c \in Conns |-> FALSE]
    /\ code_server = [c \in Conns |-> 0]
    /\ cs_lock = [c \in Conns |-> 0]
    /\ bridges = [c \in Conns |-> {}]
    /\ bridge_in = [c \in Conns |-> [i \in SocketIds |-> <<>>]]
    /\ disposed = [c \in Conns |-> FALSE]
    /\ futs = [c \in Conns |-> {}]
    /\ message_id = 0 /\ servers = [c \in Conns |-> 0] /\ sent = 0
    /\ dispatched = [c \in Conns |-> {}]
    /\ spawnPc = "idle" /\ child = "none"
    /\ pipe_out = 0 /\ pipe_err = 0 /\ sink_out = 0 /\ sink_err = 0
    /\ emitted = 0 /\ copy_out = "none" /\ copy_err = "none" /\ copy_in = "none"


\* ----------------------------------------------------------- the accept loop
ShutdownSignals == {"CtrlC", "RpcShutdownRequested", "RpcRestartRequested"}

\* next: match reason { RpcRestartRequested => Restart, _ => Exit }
NextForShutdown_AlwaysExit(reason) == "Exit"
NextForShutdown(reason) ==
    IF reason = "RpcRestartRequested" THEN "Restart" ELSE "Exit"

\* serve returns: rx and signal_exit are dropped.
Return(next, event) ==
    /\ acceptPc' = "returned"
    /\ outcome' = next
    /\ lastEvent' = event
    /\ signal_exit' = FALSE

\* Ok(reason) = shutdown_rx.wait()
AcceptShutdown ==
    /\ acceptPc = "running" /\ shutdown_rx # "none"
    /\ Return(NextForShutdown(shutdown_rx), "shutdown")
    /\ UNCHANGED <<server_rx, shutdown_rx, port, forwarding, accepted>>
    /\ UNCHANGED <<ioVars, loopVars, ctxVars, globalVars, spawnVars>>

\* c = rx.recv(): Some(ServerSignal::Respawn)
AcceptRespawn ==
    /\ acceptPc = "running" /\ server_rx > 0
    /\ Return("Respawn", "respawn")
    /\ server_rx' = server_rx - 1
    /\ UNCHANGED <<shutdown_rx, port, forwarding, accepted>>
    /\ UNCHANGED <<ioVars, loopVars, ctxVars, globalVars, spawnVars>>

\* Some(w) = forwarding.recv(): forwarding.process(w, &mut tunnel)
AcceptForwarding ==
    /\ acceptPc = "running" /\ forwarding > 0
    /\ forwarding' = forwarding - 1
    /\ lastEvent' = "forwarding"
    /\ UNCHANGED <<acceptPc, outcome, server_rx, shutdown_rx, signal_exit, port, accepted>>
    /\ UNCHANGED <<ioVars, loopVars, ctxVars, globalVars, spawnVars>>

\* l = port.recv(): None
AcceptPortClosed ==
    /\ acceptPc = "running" /\ port = "closed"
    /\ Return("Restart", "port_closed")
    /\ UNCHANGED <<server_rx, shutdown_rx, port, forwarding, accepted>>
    /\ UNCHANGED <<ioVars, loopVars, ctxVars, globalVars, spawnVars>>

\* l = port.recv(): Some(socket): process_socket is spawned on it; its read
\* task starts at send_version and its write loop at the select.
Accept(limit) ==
    /\ acceptPc = "running" /\ port = "open" /\ accepted < limit
    /\ LET c == accepted + 1 IN
        /\ accepted' = c
        /\ stream' = Upd(stream, c, "open")
        /\ readPc' = Upd(readPc, c, "send_version")
        /\ writePc' = Upd(writePc, c, "running")
    /\ lastEvent' = "accept"
    /\ UNCHANGED <<acceptPc, outcome, server_rx, shutdown_rx, signal_exit, port, forwarding>>
    /\ UNCHANGED <<inbound, wire, outbound, readHold, socket_q, http_q>>
    /\ UNCHANGED <<ctxVars, globalVars, spawnVars>>

AcceptStream == Accept(MaxConns)
AcceptFirst == Accept(1)

\* The environment of the accept loop while it runs.
ShutdownFires ==
    /\ acceptPc = "running" /\ shutdown_rx = "none"
    /\ \E r \in ShutdownSignals : shutdown_rx' = r
    /\ UNCHANGED <<acceptPc, outcome, lastEvent, server_rx, signal_exit, port,
                   forwarding, accepted>>
    /\ UNCHANGED <<ioVars, loopVars, ctxVars, globalVars, spawnVars>>

PortCloses ==
    /\ acceptPc = "running" /\ port = "open" /\ port' = "closed"
    /\ UNCHANGED <<acceptPc, outcome, lastEvent, server_rx, shutdown_rx, signal_exit,
                   forwarding, accepted>>
    /\ UNCHANGED <<ioVars, loopVars, ctxVars, globalVars, spawnVars>>

ForwardingEvent ==
    /\ acceptPc = "running" /\ forwarding = 0 /\ forwarding' = 1
    /\ UNCHANGED <<acceptPc, outcome, lastEvent, server_rx, shutdown_rx, signal_exit,
                   port, accepted>>
    /\ UNCHANGED <<ioVars, loopVars, ctxVars, globalVars, spawnVars>>


\* ------------------------------------------------------------ the read task
Room(c) == Len(socket_q[c]) < SOCKET_CHANNEL_CAP
\* A send on socket_tx fails once process_socket has returned (socket_rx dropped).
WriterGone(c) == writePc[c] = "exited"
\* The exit barrier is open once serve has dropped signal_exit.
ExitBarrierOpen == ~signal_exit

\* send_version(&socket_tx).await
SendVersion(c) ==
    /\ readPc[c] = "send_version"
    /\ WriterGone(c) \/ Room(c)
    /\ socket_q' = IF WriterGone(c) THEN socket_q
                   ELSE Upd(socket_q, c, Append(socket_q[c], VersionFrame))
    /\ readPc' = Upd(readPc, c, "read")
    /\ UNCHANGED <<readHold, writePc, http_q>>
    /\ UNCHANGED <<acceptVars, ioVars, ctxVars, globalVars, spawnVars>>

\* rpc.dispatch(&frame) for a frame whose id is present: the response of a
\* sync handler or of an unknown method.
ResponseFor(fr, res) == IF fr.id = 0 THEN NoOut ELSE Response(fr.id, res)

\* Bytes the frame codec rejects: decoder.decode returns Err.
BadFrame == "<bad frame>"

\* A complete frame whose payload MsgPackSerializer::deserialize rejects
\* with InvalidRpcDataError. rpc.dispatch still returns a MaybeSync value:
\* nothing, or an error message for the client.
Undecodable == "<undecodable>"

\* match rpc.dispatch(&frame): Sync(Some(v)) sends v, every other arm goes
\* on with the next frame; no arm leaves the loop.
AfterDispatch_CloseOnError(v) ==
    IF v = NoOut THEN "read"
    ELSE IF v.res = "ok" THEN "send" ELSE "close_with"
AfterDispatch(v) == IF v = NoOut THEN "read" ELSE "send"

\* handle_socket_read: one frame is read, decoded and dispatched. A sync
\* handler runs here; an async or duplex handler becomes a spawned future.
ReadFrame(c) ==
    /\ readPc[c] = "read" /\ inbound[c] # <<>>
    /\ Head(inbound[c]).method # BadFrame
    /\ LET fr == Head(inbound[c])
           reg == Lookup(fr.method)
       IN
        /\ inbound' = Upd(inbound, c, Tail(inbound[c]))
        /\ dispatched' = Upd(dispatched, c, dispatched[c] \cup
               {[fr EXCEPT !.hit = (fr.method = "servermsg" /\ write_message(c, fr.i))]})
        /\ \E ok \in BOOLEAN :
            LET v == CASE fr.method = Undecodable ->
                            IF ok THEN NoOut ELSE Response(0, "InvalidRpcData")
                       [] reg.kind = "none" -> ResponseFor(fr, "MethodNotFound")
                       [] reg.kind = "sync" ->
                            ResponseFor(fr, HandlerResult(c, reg.handler, fr, ok))
                       [] OTHER -> NoOut
            IN
            /\ (fr.method # Undecodable
                /\ (reg.handler \notin Fallible \/ reg.kind # "sync")) => ok
            /\ readHold' = Upd(readHold, c, v)
            /\ readPc' = Upd(readPc, c, AfterDispatch(v))
        /\ IF reg.kind = "sync"
           THEN /\ bridge_in' = Upd(bridge_in, c, BridgeInAfter(c, reg.handler, fr))
                /\ http_requests' =
                       Upd(http_requests, c, HttpRequestsAfter(c, reg.handler, fr))
                /\ futs' = Upd(futs, c, FutsAfter(c, reg.handler, fr))
           ELSE /\ UNCHANGED <<bridge_in, http_requests>>
                /\ futs' = IF reg.kind \in {"async", "duplex"}
                           THEN Upd(futs, c, futs[c] \cup
                                    {Fut(fr.seq, fr, reg.handler)})
                           ELSE futs
    /\ UNCHANGED <<stream, wire, outbound, writePc, socket_q, http_q>>
    /\ UNCHANGED <<did_update, code_server, cs_lock, bridges, disposed>>
    /\ UNCHANGED <<acceptVars, message_id, servers, sent, spawnVars>>

\* socket_tx.send(SocketSignal::Send(v)).await of a sync response: it waits
\* for room; if the write loop is gone the read loop returns Ok(()).
ReadSend(c) ==
    /\ readPc[c] = "send"
    /\ WriterGone(c) \/ Room(c)
    /\ socket_q' = IF WriterGone(c) THEN socket_q
                   ELSE Upd(socket_q, c, Append(socket_q[c], readHold[c]))
    /\ readPc' = Upd(readPc, c, IF WriterGone(c) THEN "teardown" ELSE "read")
    /\ readHold' = Upd(readHold, c, NoOut)
    /\ UNCHANGED <<writePc, http_q>>
    /\ UNCHANGED <<acceptVars, ioVars, ctxVars, globalVars, spawnVars>>

\* readhalf.read_buf returns Ok(0) at the end of the stream: read_len is 0
\* and is not examined.
ReadEof(c) ==
    /\ readPc[c] = "read" /\ inbound[c] = <<>> /\ stream[c] = "eof"
    /\ readPc' = Upd(readPc, c, "decode")
    /\ UNCHANGED <<readHold, writePc, socket_q, http_q>>
    /\ UNCHANGED <<acceptVars, ioVars, ctxVars, globalVars, spawnVars>>

\* decoder.decode finds no frame in the empty buffer: the loop reads again.
ReadAgain(c) ==
    /\ readPc[c] = "decode"
    /\ readPc' = Upd(readPc, c, "read")
    /\ UNCHANGED <<readHold, writePc, socket_q, http_q>>
    /\ UNCHANGED <<acceptVars, ioVars, ctxVars, globalVars, spawnVars>>

\* decoder.decode(&mut decoder_buf)? returns Err: handle_socket_read returns
\* it.
ReadCodecErr(c) ==
    /\ readPc[c] = "read" /\ inbound[c] # <<>>
    /\ Head(inbound[c]).method = BadFrame
    /\ inbound' = Upd(inbound, c, Tail(inbound[c]))
    /\ readPc' = Upd(readPc, c, "close_with")
    /\ readHold' = Upd(readHold, c, CloseWith("codec"))
    /\ UNCHANGED <<stream, wire, outbound, writePc, socket_q, http_q>>
    /\ UNCHANGED <<acceptVars, ctxVars, globalVars, spawnVars>>

\* readhalf.read_buf returns Err: handle_socket_read returns it.
ReadErr(c) ==
    /\ readPc[c] = "read" /\ inbound[c] = <<>> /\ stream[c] = "err"
    /\ readPc' = Upd(readPc, c, "close_with")
    /\ readHold' = Upd(readHold, c, CloseWith("io"))
    /\ UNCHANGED <<writePc, socket_q, http_q>>
    /\ UNCHANGED <<acceptVars, ioVars, ctxVars, globalVars, spawnVars>>

\* closer.wait() completes: Err(UnexpectedEof, "eof").
ReadCloser(c) ==
    /\ readPc[c] = "read" /\ ExitBarrierOpen
    /\ readPc' = Upd(readPc, c, "close_with")
    /\ readHold' = Upd(readHold, c, CloseWith("eof"))
    /\ UNCHANGED <<writePc, socket_q, http_q>>
    /\ UNCHANGED <<acceptVars, ioVars, ctxVars, globalVars, spawnVars>>

\* socket_tx.send(SocketSignal::CloseWith(..)).await.ok()
ReadCloseWith(c) ==
    /\ readPc[c] = "close_with"
    /\ WriterGone(c) \/ Room(c)
    /\ socket_q' = IF WriterGone(c) THEN socket_q
                   ELSE Upd(socket_q, c, Append(socket_q[c], readHold[c]))
    /\ readPc' = Upd(readPc, c, "teardown")
    /\ readHold' = Upd(readHold, c, NoOut)
    /\ UNCHANGED <<writePc, http_q>>
    /\ UNCHANGED <<acceptVars, ioVars, ctxVars, globalVars, spawnVars>>

\* if ctx.did_update.load() { server_tx.send(ServerSignal::Respawn).await.ok() }
ReadTeardown(c) ==
    /\ readPc[c] = "teardown"
    /\ IF did_update[c] /\ acceptPc = "running"
       THEN /\ server_rx < SERVER_CHANNEL_CAP
            /\ server_rx' = server_rx + 1
       ELSE UNCHANGED server_rx
    /\ readPc' = Upd(readPc, c, "dispose")
    /\ UNCHANGED <<acceptPc, outcome, lastEvent, shutdown_rx, signal_exit, port,
                   forwarding, accepted>>
    /\ UNCHANGED <<readHold, writePc, socket_q, http_q>>
    /\ UNCHANGED <<ioVars, ctxVars, globalVars, spawnVars>>

\* ctx.dispose().await: server_bridges.dispose() drops every bridge.
ReadDispose(c) ==
    /\ readPc[c] = "dispose"
    /\ bridges' = Upd(bridges, c, {})
    /\ disposed' = Upd(disposed, c, TRUE)
    /\ readPc' = Upd(readPc, c, "done")
    /\ UNCHANGED <<http_requests, did_update, code_server, cs_lock, bridge_in, futs>>
    /\ UNCHANGED <<readHold, writePc, socket_q, http_q>>
    /\ UNCHANGED <<acceptVars, ioVars, globalVars, spawnVars>>


\* ----------------------------------------------------------- the write loop
\* The write loop breaks and process_socket returns: socket_rx and http_rx
\* are dropped, and with http_rx the requests still queued on it, whose
\* awaiters then see their channel closed.
WriterExitsDropping(c, queued) ==
    /\ writePc' = Upd(writePc, c, "exited")
    /\ socket_q' = Upd(socket_q, c, <<>>)
    /\ http_q' = Upd(http_q, c, <<>>)
    /\ futs' = Upd(futs, c,
          {IF \E k \in DOMAIN queued : queued[k] = ft.fid
           THEN [ft EXCEPT !.http = "error"] ELSE ft : ft \in futs[c]})
WriterExits(c) == WriterExitsDropping(c, http_q[c])

\* _ = exit_barrier.wait() => { writehalf.shutdown(); break }
WriteExitBarrier(c) ==
    /\ writePc[c] = "running" /\ ExitBarrierOpen
    /\ WriterExits(c)
    /\ UNCHANGED <<readPc, readHold>>
    /\ UNCHANGED <<http_requests, did_update, code_server, cs_lock, bridges,
                   bridge_in, disposed>>
    /\ UNCHANGED <<acceptVars, ioVars, globalVars, spawnVars>>

\* next_message_id(): fetch_add(1) returns the value before the increment.
next_message_id == message_id

\* Some(r) = http_rx.recv(): allocate the id, insert the pending entry, then
\* write the makehttpreq frame; a write error breaks the loop.
WriteHttp(c) ==
    /\ writePc[c] = "running" /\ http_q[c] # <<>>
    /\ LET id == next_message_id IN
        /\ message_id' = message_id + 1
        /\ http_requests' = Upd(http_requests, c, http_requests[c] \cup
               {[req_id |-> id, fid |-> Head(http_q[c]), headers |-> FALSE]})
        /\ IF wire[c] = "ok"
           THEN /\ outbound' = Upd(outbound, c, Append(outbound[c], MakeHttpReq(id)))
                /\ http_q' = Upd(http_q, c, Tail(http_q[c]))
                /\ UNCHANGED <<writePc, socket_q, futs>>
           ELSE /\ WriterExitsDropping(c, Tail(http_q[c]))
                /\ UNCHANGED outbound
    /\ UNCHANGED <<readPc, readHold>>
    /\ UNCHANGED <<did_update, code_server, cs_lock, bridges, bridge_in, disposed>>
    /\ UNCHANGED <<acceptVars, stream, inbound, wire, servers, sent, dispatched, spawnVars>>

\* The same branch in its two steps, for the tasks that run between them.
\* http_requests.lock().unwrap().insert(id, r)
Insert_AfterWrite(c, id, fid) == http_requests[c]
Insert(c, id, fid) ==
    http_requests[c] \cup {[req_id |-> id, fid |-> fid, headers |-> FALSE]}

\* Some(r) = http_rx.recv(); let id = next_message_id(); the frame is
\* serialized and the entry inserted; the loop is then at write_all.
WriteHttpInsert(c) ==
    /\ writePc[c] = "running" /\ http_q[c] # <<>>
    /\ LET id == next_message_id IN
        /\ message_id' = message_id + 1
        /\ http_requests' = Upd(http_requests, c, Insert(c, id, Head(http_q[c])))
    /\ http_q' = Upd(http_q, c, Tail(http_q[c]))
    /\ writePc' = Upd(writePc, c, "http_write")
    /\ UNCHANGED <<readPc, readHold, socket_q, futs>>
    /\ UNCHANGED <<did_update, code_server, cs_lock, bridges, bridge_in, disposed>>
    /\ UNCHANGED <<acceptVars, ioVars, servers, sent, dispatched, spawnVars>>

\* writehalf.write_all(&serialized).await: the frame carries the id of the
\* loop's last next_message_id(), the newest one while no other connection
\* allocates. A write error breaks the loop.
WriteHttpEmit(c) ==
    /\ writePc[c] = "http_write"
    /\ IF wire[c] = "ok"
       THEN /\ outbound' = Upd(outbound, c,
                               Append(outbound[c], MakeHttpReq(message_id - 1)))
            /\ writePc' = Upd(writePc, c, "running")
            /\ UNCHANGED <<socket_q, http_q, futs>>
       ELSE /\ WriterExits(c)
            /\ UNCHANGED outbound
    /\ UNCHANGED <<readPc, readHold>>
    /\ UNCHANGED <<http_requests, did_update, code_server, cs_lock, bridges,
                   bridge_in, disposed>>
    /\ UNCHANGED <<acceptVars, stream, inbound, wire, globalVars, spawnVars>>

\* recv = socket_rx.recv(): Send(bytes) is written, a write error or a
\* CloseWith breaks the loop.
WriteSocket_SkipCloseWith(c) ==
    /\ writePc[c] = "running" /\ socket_q[c] # <<>>
    /\ LET m == Head(socket_q[c]) IN
        IF wire[c] = "ok"
        THEN /\ outbound' = IF m.kind = "CloseWith" THEN outbound
                            ELSE Upd(outbound, c, Append(outbound[c], m))
             /\ socket_q' = Upd(socket_q, c, Tail(socket_q[c]))
             /\ UNCHANGED <<writePc, http_q, futs>>
        ELSE /\ WriterExits(c)
             /\ UNCHANGED outbound
    /\ UNCHANGED <<readPc, readHold>>
    /\ UNCHANGED <<http_requests, did_update, code_server, cs_lock, bridges,
                   bridge_in, disposed>>
    /\ UNCHANGED <<acceptVars, stream, inbound, wire, globalVars, spawnVars>>
WriteSocket(c) ==
    /\ writePc[c] = "running" /\ socket_q[c] # <<>>
    /\ LET m == Head(socket_q[c]) IN
        IF m.kind # "CloseWith" /\ wire[c] = "ok"
        THEN /\ outbound' = Upd(outbound, c, Append(outbound[c], m))
             /\ socket_q' = Upd(socket_q, c, Tail(socket_q[c]))
             /\ UNCHANGED <<writePc, http_q, futs>>
        ELSE /\ WriterExits(c)
             /\ UNCHANGED outbound
    /\ UNCHANGED <<readPc, readHold>>
    /\ UNCHANGED <<http_requests, did_update, code_server, cs_lock, bridges,
                   bridge_in, disposed>>
    /\ UNCHANGED <<acceptVars, stream, inbound, wire, globalVars, spawnVars>>

\* ------------------------------------------------------ the handler futures
\* A one-shot async handler runs. callserverhttp first takes and releases
\* the code_server mutex.
FutureRun(c) ==
    \E ft \in futs[c], ok \in BOOLEAN :
        /\ ft.pc = "start" /\ ft.h \in OneShot
        /\ ft.h = "callserverhttp" => cs_lock[c] = 0
        /\ (ft.h \notin Fallible /\ ft.h # "callserverhttp") => ok
        /\ bridge_in' = Upd(bridge_in, c, BridgeInAfter(c, ft.h, ft))
        /\ http_requests' = Upd(http_requests, c, HttpRequestsAfter(c, ft.h, ft))
        /\ futs' = Upd(futs, c, (FutsAfter(c, ft.h, ft) \ {ft}) \cup
               {[ft EXCEPT !.pc = "respond",
                           !.res = HandlerResult(c, ft.h, ft, ok)]})
        /\ UNCHANGED <<did_update, code_server, cs_lock, bridges, disposed>>
        /\ UNCHANGED <<acceptVars, ioVars, loopVars, globalVars, spawnVars>>

\* if let Some(v) = fut.await { socket_tx.send(SocketSignal::Send(v)).await.ok() }
\* A request without an id yields None.
FutureRespond_Drop(c) ==
    \E ft \in futs[c] :
        /\ ft.pc = "respond"
        /\ futs' = Upd(futs, c, futs[c] \ {ft})
        /\ UNCHANGED <<http_requests, did_update, code_server, cs_lock, bridges,
                       bridge_in, disposed>>
        /\ UNCHANGED <<acceptVars, ioVars, loopVars, globalVars, spawnVars>>
FutureRespond(c) ==
    \E ft \in futs[c] :
        /\ ft.pc = "respond"
        /\ futs' = Upd(futs, c, futs[c] \ {ft})
        /\ IF ft.id = 0 \/ WriterGone(c)
           THEN UNCHANGED socket_q
           ELSE /\ Room(c)
                /\ socket_q' = Upd(socket_q, c,
                                   Append(socket_q[c], Response(ft.id, ft.res)))
        /\ UNCHANGED <<readPc, readHold, writePc, http_q>>
        /\ UNCHANGED <<http_requests, did_update, code_server, cs_lock, bridges,
                       bridge_in, disposed>>
        /\ UNCHANGED <<acceptVars, ioVars, globalVars, spawnVars>>

\* --------------------------------------------------------------- handle_serve
SetFut(c, ft, new) == Upd(futs, c, (futs[c] \ {ft}) \cup {new})
Fail(ft, err) == [ft EXCEPT !.pc = "respond", !.res = err]

\* params_raw.resolve(..).await?: it ends once no delegated request of the
\* call is outstanding, and fails if that request failed.
ServeResolve(c) ==
    \E ft \in futs[c], ok \in BOOLEAN :
        /\ ft.h = "serve" /\ ft.pc = "start"
        /\ ft.http \in {"none", "eof", "error"}
        /\ ft.http = "error" => ~ok
        /\ futs' = SetFut(c, ft, IF ok THEN [ft EXCEPT !.pc = "lock"]
                                 ELSE Fail(ft, "Wrapped"))
        /\ UNCHANGED <<http_requests, did_update, code_server, cs_lock, bridges,
                       bridge_in, disposed>>
        /\ UNCHANGED <<acceptVars, ioVars, loopVars, globalVars, spawnVars>>

\* let mut server_ref = c.code_server.lock().await; match &*server_ref:
\* Some(o) => o.clone(); None => the setup follows, under the lock.
ServeLockFor(c, ft) ==
    /\ ft.h = "serve" /\ ft.pc = "lock"
    /\ cs_lock' = Upd(cs_lock, c, ft.fid)
    /\ futs' = SetFut(c, ft,
          IF code_server[c] # 0
          THEN [ft EXCEPT !.pc = "attach", !.server = code_server[c]]
          ELSE [ft EXCEPT !.pc = "setup"])
    /\ UNCHANGED <<http_requests, did_update, code_server, bridges, bridge_in, disposed>>
    /\ UNCHANGED <<acceptVars, ioVars, loopVars, globalVars, spawnVars>>

ServeLock_NoMutex(c) == \E ft \in futs[c] : ServeLockFor(c, ft)
ServeLock(c) == \E ft \in futs[c] : cs_lock[c] = 0 /\ ServeLockFor(c, ft)

\* do_setup!: get_running, then setup and listen_on_default_socket, each of
\* which may fail; server_ref.replace(server.clone()). An error returns from
\* handle_serve, which drops the guard.
SetupOutcomes == {"get_running_err", "adopted", "mismatched", "setup_err",
                  "listen_err", "started"}
\* `?` and `return Err(..)` inside do_setup! leave handle_serve: server_ref,
\* the guard of the code_server mutex, is dropped.
GuardAfterError_Held(c, ft) == cs_lock[c]
GuardAfterError(c, ft) == IF cs_lock[c] = ft.fid THEN 0 ELSE cs_lock[c]
ServeSetup(c) ==
    \E ft \in futs[c], o \in SetupOutcomes :
        /\ ft.h = "serve" /\ ft.pc = "setup"
        /\ IF o \in {"adopted", "started"}
           THEN /\ servers' = Upd(servers, c, servers[c] + 1)
                /\ code_server' = Upd(code_server, c, servers[c] + 1)
                /\ futs' = SetFut(c, ft, [ft EXCEPT !.pc = "attach",
                                                    !.server = servers[c] + 1])
                /\ UNCHANGED cs_lock
           ELSE /\ futs' = SetFut(c, ft,
                     Fail(ft, IF o = "mismatched" THEN "MismatchedLaunchMode"
                              ELSE "Wrapped"))
                /\ cs_lock' = Upd(cs_lock, c, GuardAfterError(c, ft))
                /\ UNCHANGED <<servers, code_server>>
        /\ UNCHANGED <<http_requests, did_update, bridges, bridge_in, disposed>>
        /\ UNCHANGED <<acceptVars, ioVars, loopVars, message_id, sent, dispatched,
                       spawnVars>>

\* ServerOutputSink::write_log: self.tx.try_send(s).ok(). The line is queued
\* when the channel has room and its receiver lives, and is dropped otherwise.
try_send_Overfill(c, m) == Upd(socket_q, c, Append(socket_q[c], m))
try_send(c, m) ==
    IF ~WriterGone(c) /\ Room(c)
    THEN Upd(socket_q, c, Append(socket_q[c], m))
    ELSE socket_q

\* The ServerBuilder logs a line of install progress to install_log while
\* do_setup! runs under the code_server lock.
write_log(c) ==
    \E ft \in futs[c] :
        /\ ft.h = "serve" /\ ft.pc = "setup" /\ ft.logs < MaxLogs
        /\ socket_q' = try_send(c, ServerLog(ft.logs + 1))
        /\ futs' = SetFut(c, ft, [ft EXCEPT !.logs = ft.logs + 1])
        /\ UNCHANGED <<readPc, readHold, writePc, http_q>>
        /\ UNCHANGED <<http_requests, did_update, code_server, cs_lock, bridges,
                       bridge_in, disposed>>
        /\ UNCHANGED <<acceptVars, ioVars, globalVars, spawnVars>>

\* attach_server_bridge: ServerBridge::new(..).await, then
\* multiplexer.register(socket_id, a); handle_serve returns and the guard on
\* code_server is dropped.
ServeAttach(c) ==
    \E ft \in futs[c], ok \in BOOLEAN :
        /\ ft.h = "serve" /\ ft.pc = "attach"
        /\ bridges' = IF ok THEN Upd(bridges, c, bridges[c] \cup {ft.i}) ELSE bridges
        /\ futs' = SetFut(c, ft, Fail(ft, IF ok THEN "ok" ELSE "Wrapped"))
        /\ cs_lock' = Upd(cs_lock, c, IF cs_lock[c] = ft.fid THEN 0 ELSE cs_lock[c])
        /\ UNCHANGED <<http_requests, did_update, code_server, bridge_in, disposed>>
        /\ UNCHANGED <<acceptVars, ioVars, loopVars, globalVars, spawnVars>>

\* -------------------------------------------------------------- handle_update
\* is_integrated_cli() is Ok(true), or did_update is already set: up to date.
\* Otherwise SelfUpdate::new(..)? and get_current_release() is awaited.
UpdateStart(c) ==
    \E ft \in futs[c], o \in {"integrated", "new_err", "go"} :
        /\ ft.h = "update" /\ ft.pc = "start"
        /\ futs' = SetFut(c, ft,
              CASE o = "integrated" \/ did_update[c] -> Fail(ft, "ok")
                [] o = "new_err" -> Fail(ft, "Wrapped")
                [] OTHER -> [ft EXCEPT !.pc = "fetch"])
        /\ UNCHANGED <<http_requests, did_update, code_server, cs_lock, bridges,
                       bridge_in, disposed>>
        /\ UNCHANGED <<acceptVars, ioVars, loopVars, globalVars, spawnVars>>

\* get_current_release().await? has ended; then, without suspending: return
\* if !do_update or up to date, else compare_exchange(false, true) on
\* did_update, returning if it fails.
\* did_update.compare_exchange(false, true, ..).is_ok()
compare_exchange_Store(c) == TRUE
compare_exchange(c) == ~did_update[c]

UpdateFetched(c) ==
    \E ft \in futs[c], o \in {"err", "up_to_date", "newer"} :
        /\ ft.h = "update" /\ ft.pc = "fetch"
        /\ ft.http \in {"none", "eof", "error"}
        /\ ft.http = "error" => o = "err"
        /\ LET cas == o = "newer" /\ ft.flag /\ compare_exchange(c) IN
            /\ did_update' = IF cas THEN Upd(did_update, c, TRUE) ELSE did_update
            /\ futs' = SetFut(c, ft,
                  CASE o = "err" -> Fail(ft, "Wrapped")
                    [] cas -> [ft EXCEPT !.pc = "do_update"]
                    [] OTHER -> Fail(ft, "ok"))
        /\ UNCHANGED <<http_requests, code_server, cs_lock, bridges, bridge_in, disposed>>
        /\ UNCHANGED <<acceptVars, ioVars, loopVars, globalVars, spawnVars>>

\* updater.do_update(..).await?: neither return stores to did_update.
DidUpdateAfterDo_ResetOnError(c, ok) == IF ok THEN did_update[c] ELSE FALSE
DidUpdateAfterDo(c, ok) == did_update[c]

UpdateDo(c) ==
    \E ft \in futs[c], ok \in BOOLEAN :
        /\ ft.h = "update" /\ ft.pc = "do_update"
        /\ futs' = SetFut(c, ft, Fail(ft, IF ok THEN "ok" ELSE "Wrapped"))
        /\ did_update' = Upd(did_update, c, DidUpdateAfterDo(c, ok))
        /\ UNCHANGED <<http_requests, code_server, cs_lock, bridges,
                       bridge_in, disposed>>
        /\ UNCHANGED <<acceptVars, ioVars, loopVars, globalVars, spawnVars>>

\* ------------------------------------------------------------- delegated HTTP
\* A handler's HTTP client delegates a request to the client: serve with
\* use_local_download while it resolves, update (whose fallback client
\* delegates when the direct request fails) while it fetches the release.
\* The request is queued on http_rx; the send fails once http_rx is dropped.
AtHttpPoint(ft) ==
    \/ ft.h = "serve" /\ ft.pc = "start" /\ ft.flag
    \/ ft.h = "update" /\ ft.pc = "fetch"

HttpMakeRequest(c) ==
    \E ft \in futs[c] :
        /\ AtHttpPoint(ft) /\ ft.http = "none"
        /\ IF WriterGone(c)
           THEN /\ futs' = SetFut(c, ft, [ft EXCEPT !.http = "error"])
                /\ UNCHANGED http_q
           ELSE /\ Len(http_q[c]) < HTTP_CHANNEL_CAP
                /\ http_q' = Upd(http_q, c, Append(http_q[c], ft.fid))
                /\ futs' = SetFut(c, ft, [ft EXCEPT !.http = "wait_headers"])
        /\ UNCHANGED <<readPc, readHold, writePc, socket_q>>
        /\ UNCHANGED <<http_requests, did_update, code_server, cs_lock, bridges,
                       bridge_in, disposed>>
        /\ UNCHANGED <<acceptVars, ioVars, globalVars, spawnVars>>

\* A bridge reaches EOF or fails: it is disposed and leaves the multiplexer.
BridgeCloses(c) ==
    \E i \in bridges[c] :
        /\ bridges' = Upd(bridges, c, bridges[c] \ {i})
        /\ UNCHANGED <<http_requests, did_update, code_server, cs_lock, bridge_in,
                       disposed, futs>>
        /\ UNCHANGED <<acceptVars, ioVars, loopVars, globalVars, spawnVars>>

\* ---------------------------------------------------------------- the client
\* The client sends one request frame, with or without an id.
ClientSend(c, method, i, flag) ==
    /\ stream[c] = "open" /\ sent < MaxFrames
    /\ \E hasId \in BOOLEAN :
        inbound' = Upd(inbound, c, Append(inbound[c],
            Frame(sent + 1, IF hasId THEN sent + 1 ELSE 0, method, i, sent + 1, flag)))
    /\ sent' = sent + 1
    /\ UNCHANGED <<stream, wire, outbound, message_id, servers, dispatched>>
    /\ UNCHANGED <<acceptVars, loopVars, ctxVars, spawnVars>>

ClientPing(c) == ClientSend(c, "ping", 0, FALSE)
ClientForward(c) == ClientSend(c, "forward", 0, FALSE)
ClientUnknown(c) == ClientSend(c, "nope", 0, FALSE)
ClientSpawn(c) == ClientSend(c, "spawn", 0, FALSE)
ClientServerMsg(c) == \E i \in SocketIds : ClientSend(c, "servermsg", i, FALSE)
ClientServe(c) == \E i \in SocketIds : ClientSend(c, "serve", i, FALSE)
ClientCallServerHttp(c) == ClientSend(c, "callserverhttp", 0, FALSE)
ClientGarbage(c) == ClientSend(c, Undecodable, 0, FALSE)
ClientBadFrame(c) == ClientSend(c, BadFrame, 0, FALSE)
ClientUpdate(c) == \E do_update \in BOOLEAN : ClientSend(c, "update", 0, do_update)
\* A client whose only frame is an update call.
ClientUpdateOnly(c) == sent = 0 /\ ClientUpdate(c)
\* The req_ids a client names in its replies to makehttpreq.
ReqIds == {0, 1}
ClientHttpHeaders(c) == \E r \in ReqIds : ClientSend(c, "httpheaders", r, FALSE)
\* HttpBodyParams frames reach their handler under the name it is registered
\* with.
ClientHttpBody(c) ==
    \E r \in ReqIds, complete \in BOOLEAN : ClientSend(c, "unforward", r, complete)

\* The client closes its stream (reads return 0 bytes), or the stream fails.
ClientClose(c) ==
    /\ stream[c] = "open" /\ stream' = Upd(stream, c, "eof")
    /\ UNCHANGED <<inbound, wire, outbound>>
    /\ UNCHANGED <<acceptVars, loopVars, ctxVars, globalVars, spawnVars>>

ClientAbort(c) ==
    /\ stream[c] = "open" /\ stream' = Upd(stream, c, "err")
    /\ UNCHANGED <<inbound, wire, outbound>>
    /\ UNCHANGED <<acceptVars, loopVars, ctxVars, globalVars, spawnVars>>

\* Writes to writehalf start to fail.
WireBreaks(c) ==
    /\ writePc[c] = "running" /\ wire[c] = "ok" /\ wire' = Upd(wire, c, "broken")
    /\ UNCHANGED <<stream, inbound, outbound>>
    /\ UNCHANGED <<acceptVars, loopVars, ctxVars, globalVars, spawnVars>>

\* --------------------------------------------------------------- handle_spawn
otherVars == <<acceptVars, ioVars, loopVars, ctxVars, globalVars>>

\* Command::spawn()?: on success the three copy futures are pushed on futs
\* and the select! is entered; on failure handle_spawn returns the error.
SpawnCommand ==
    /\ spawnPc = "idle"
    /\ \E ok \in BOOLEAN :
        IF ok
        THEN /\ spawnPc' = "select" /\ child' = "running"
             /\ copy_out' = "running" /\ copy_err' = "running" /\ copy_in' = "running"
        ELSE /\ spawnPc' = "failed"
             /\ UNCHANGED <<child, copy_out, copy_err, copy_in>>
    /\ UNCHANGED <<pipe_out, pipe_err, sink_out, sink_err, emitted, otherVars>>

\* The child writes a byte to its stdout or its stderr pipe.
ChildWritesOut ==
    /\ child = "running" /\ emitted < MaxBytes
    /\ pipe_out' = pipe_out + 1 /\ emitted' = emitted + 1
    /\ UNCHANGED <<spawnPc, child, pipe_err, sink_out, sink_err, copy_out, copy_err,
                   copy_in, otherVars>>

ChildWritesErr ==
    /\ child = "running" /\ emitted < MaxBytes
    /\ pipe_err' = pipe_err + 1 /\ emitted' = emitted + 1
    /\ UNCHANGED <<spawnPc, child, pipe_out, sink_out, sink_err, copy_out, copy_err,
                   copy_in, otherVars>>

\* The child exits: the write ends of its pipes close.
ChildExits ==
    /\ child = "running" /\ child' = "exited"
    /\ UNCHANGED <<spawnPc, pipe_out, pipe_err, sink_out, sink_err, emitted,
                   copy_out, copy_err, copy_in, otherVars>>

\* tokio::io::copy(&mut a, &mut b) on stdout: a byte moves from the pipe to
\* the caller's sink; at the end of the pipe the copy completes.
CopyOut ==
    /\ copy_out = "running" /\ spawnPc \in {"select", "closed_await"}
    /\ IF pipe_out > 0
       THEN /\ pipe_out' = pipe_out - 1 /\ sink_out' = sink_out + 1
            /\ UNCHANGED copy_out
       ELSE /\ child = "exited" /\ copy_out' = "done"
            /\ UNCHANGED <<pipe_out, sink_out>>
    /\ UNCHANGED <<spawnPc, child, pipe_err, sink_err, emitted, copy_err, copy_in,
                   otherVars>>

\* The same on stderr.
CopyErr ==
    /\ copy_err = "running" /\ spawnPc \in {"select", "closed_await"}
    /\ IF pipe_err > 0
       THEN /\ pipe_err' = pipe_err - 1 /\ sink_err' = sink_err + 1
            /\ UNCHANGED copy_err
       ELSE /\ child = "exited" /\ copy_err' = "done"
            /\ UNCHANGED <<pipe_err, sink_err>>
    /\ UNCHANGED <<spawnPc, child, pipe_out, sink_out, emitted, copy_out, copy_in,
                   otherVars>>

\* The copy into the child's stdin completes: the caller's stream ends, or a
\* write to the exited child fails.
CopyIn ==
    /\ copy_in = "running" /\ spawnPc \in {"select", "closed_await"}
    /\ copy_in' = "done"
    /\ UNCHANGED <<spawnPc, child, pipe_out, pipe_err, sink_out, sink_err, emitted,
                   copy_out, copy_err, otherVars>>

\* select!: _ = join_all(futs) => closed.await
SelectJoined ==
    /\ spawnPc = "select"
    /\ copy_out = "done" /\ copy_err = "done" /\ copy_in = "done"
    /\ spawnPc' = "closed_await"
    /\ UNCHANGED <<child, pipe_out, pipe_err, sink_out, sink_err, emitted,
                   copy_out, copy_err, copy_in, otherVars>>

\* closed.await completes once the child has exited: Ok(SpawnResult).
ClosedAwait ==
    /\ spawnPc = "closed_await" /\ child = "exited"
    /\ spawnPc' = "returned"
    /\ UNCHANGED <<child, pipe_out, pipe_err, sink_out, sink_err, emitted,
                   copy_out, copy_err, copy_in, otherVars>>

\* select!: r = &mut closed => r. The other branch is dropped, and with it
\* the copy futures that have not completed; then Ok(SpawnResult).
Dropped(copy) == IF copy = "running" THEN "dropped" ELSE copy
SelectClosed ==
    /\ spawnPc = "select" /\ child = "exited"
    /\ spawnPc' = "returned"
    /\ copy_out' = Dropped(copy_out)
    /\ copy_err' = Dropped(copy_err)
    /\ copy_in' = Dropped(copy_in)
    /\ UNCHANGED <<child, pipe_out, pipe_err, sink_out, sink_err, emitted, otherVars>>

\* --------------------------------------------------------- specifications
\* The RPC runtime of one connection that stays open.
NextRpc ==
    \/ AcceptFirst
    \/ \E c \in Conns :
        \/ ClientPing(c) \/ ClientForward(c) \/ ClientUnknown(c) \/ ClientSpawn(c)
        \/ SendVersion(c) \/ ReadFrame(c) \/ ReadSend(c)
        \/ WriteSocket(c) \/ FutureRun(c) \/ FutureRespond(c)

SpecRpc == Init /\ [][NextRpc]_vars

\* The tasks of a connection are scheduled fairly and every handler future
\* completes.
FairRpc ==
    /\ SpecRpc
    /\ \A c \in Conns :
        /\ WF_vars(SendVersion(c)) /\ WF_vars(ReadFrame(c)) /\ WF_vars(ReadSend(c))
        /\ WF_vars(WriteSocket(c)) /\ WF_vars(FutureRun(c))
        /\ WF_vars(FutureRespond(c))

\* serve, servermsg and callserverhttp on one connection that stays open.
NextServe ==
    \/ AcceptFirst
    \/ \E c \in Conns :
        \/ ClientServe(c) \/ ClientServerMsg(c) \/ ClientCallServerHttp(c)
        \/ SendVersion(c) \/ ReadFrame(c) \/ ReadSend(c)
        \/ WriteSocket(c) \/ FutureRun(c) \/ FutureRespond(c)
        \/ ServeResolve(c) \/ ServeLock(c) \/ ServeSetup(c) \/ ServeAttach(c)
        \/ BridgeCloses(c)

SpecServe == Init /\ [][NextServe]_vars

\* update and the delegated-HTTP channel on one connection.
NextHttp ==
    \/ AcceptFirst
    \/ \E c \in Conns :
        \/ ClientUpdate(c) \/ ClientHttpHeaders(c) \/ ClientHttpBody(c)
        \/ SendVersion(c) \/ ReadFrame(c) \/ ReadSend(c)
        \/ WriteSocket(c) \/ WriteHttp(c) \/ FutureRespond(c)
        \/ UpdateStart(c) \/ UpdateFetched(c) \/ UpdateDo(c) \/ HttpMakeRequest(c)

SpecHttp == Init /\ [][NextHttp]_vars

\* The steps of a connection's read task, write loop and update futures.
ReadStep(c) ==
    \/ SendVersion(c) \/ ReadFrame(c) \/ ReadEof(c) \/ ReadAgain(c)
    \/ ReadErr(c) \/ ReadCloseWith(c) \/ ReadTeardown(c) \/ ReadDispose(c)

WriteStep(c) == WriteSocket(c) \/ WriteExitBarrier(c)

UpdateStep(c) ==
    FutureRespond(c) \/ UpdateStart(c) \/ UpdateFetched(c) \/ UpdateDo(c)

\* The accept loop, the events that end it, and a connection that may update
\* and then ends.
NextAccept ==
    \/ AcceptFirst \/ AcceptShutdown \/ AcceptRespawn \/ AcceptForwarding
    \/ AcceptPortClosed
    \/ ShutdownFires \/ PortCloses \/ ForwardingEvent
    \/ \E c \in Conns :
        \/ ClientUpdateOnly(c) \/ ClientClose(c) \/ ClientAbort(c)
        \/ ReadStep(c) \/ ReadCloser(c) \/ WriteStep(c) \/ UpdateStep(c)

SpecAccept == Init /\ [][NextAccept]_vars

\* The same connection with no other event to end the accept loop.
NextRespawn ==
    \/ AcceptFirst \/ AcceptRespawn
    \/ \E c \in Conns :
        \/ ClientUpdateOnly(c) \/ ClientClose(c) \/ ClientAbort(c)
        \/ ReadStep(c) \/ WriteStep(c) \/ UpdateStep(c)

SpecRespawn == Init /\ [][NextRespawn]_vars

\* The accept loop and the tasks of the connection are scheduled fairly (a
\* ready select! branch is eventually taken) and the awaits of update end;
\* the client is under no obligation.
FairRespawn ==
    /\ SpecRespawn
    /\ WF_vars(AcceptRespawn)
    /\ \A c \in Conns :
        WF_vars(ReadStep(c)) /\ WF_vars(WriteStep(c)) /\ WF_vars(UpdateStep(c))

\* A connection whose update call delegates an HTTP request and whose stream
\* then fails.
NextHttpClose ==
    \/ AcceptFirst
    \/ \E c \in Conns :
        \/ ClientUpdateOnly(c) \/ ClientAbort(c)
        \/ SendVersion(c) \/ ReadFrame(c) \/ ReadErr(c) \/ ReadCloseWith(c)
        \/ ReadTeardown(c) \/ ReadDispose(c)
        \/ WriteSocket(c) \/ WriteHttp(c) \/ HttpMakeRequest(c) \/ UpdateStep(c)

SpecHttpClose == Init /\ [][NextHttpClose]_vars

\* handle_spawn with its child and its copy futures.
NextSpawn ==
    \/ SpawnCommand \/ ChildWritesOut \/ ChildWritesErr \/ ChildExits
    \/ CopyOut \/ CopyErr \/ CopyIn
    \/ SelectJoined \/ ClosedAwait \/ SelectClosed

SpecSpawn == Init /\ [][NextSpawn]_vars

\* One connection whose writes may start to fail and whose stream may fail,
\* with a client that sends ping calls and frames that are no RPC envelope.
NextLoops ==
    \/ AcceptFirst
    \/ \E c \in Conns :
        \/ ClientPing(c) \/ ClientGarbage(c) \/ ClientAbort(c) \/ WireBreaks(c)
        \/ SendVersion(c) \/ ReadFrame(c) \/ ReadSend(c) \/ ReadErr(c)
        \/ ReadCloseWith(c) \/ ReadTeardown(c) \/ ReadDispose(c)
        \/ WriteSocket(c)

SpecLoops == Init /\ [][NextLoops]_vars

\* The read task and the write loop are scheduled fairly; the client and
\* the transport are under no obligation.
FairLoops ==
    /\ SpecLoops
    /\ \A c \in Conns :
        /\ WF_vars(SendVersion(c) \/ ReadFrame(c) \/ ReadSend(c) \/ ReadErr(c)
                   \/ ReadCloseWith(c) \/ ReadTeardown(c) \/ ReadDispose(c))
        /\ WF_vars(WriteSocket(c))

\* serve calls on one connection whose stream may fail while they are in
\* flight.
NextServeClose ==
    \/ AcceptFirst
    \/ \E c \in Conns :
        \/ ClientServe(c) \/ ClientAbort(c)
        \/ SendVersion(c) \/ ReadFrame(c) \/ ReadErr(c) \/ ReadCloseWith(c)
        \/ ReadTeardown(c) \/ ReadDispose(c)
        \/ WriteSocket(c) \/ FutureRespond(c)
        \/ ServeResolve(c) \/ ServeLock(c) \/ ServeSetup(c) \/ ServeAttach(c)

SpecServeClose == Init /\ [][NextServeClose]_vars

\* Connections that end with a read error, a codec error or the exit
\* barrier while a forward or update call is in flight or has completed.
NextClose ==
    \/ AcceptStream \/ AcceptShutdown \/ AcceptRespawn \/ ShutdownFires
    \/ \E c \in Conns :
        \/ (sent < MaxCloseFrames /\ ClientForward(c))
        \/ (sent < MaxCloseFrames /\ ClientBadFrame(c))
        \/ (sent < MaxCloseFrames /\ ClientUpdate(c))
        \/ ClientAbort(c)
        \/ SendVersion(c) \/ ReadFrame(c) \/ ReadErr(c) \/ ReadCodecErr(c)
        \/ ReadCloser(c) \/ ReadCloseWith(c) \/ ReadTeardown(c) \/ ReadDispose(c)
        \/ WriteSocket(c) \/ WriteExitBarrier(c)
        \/ FutureRun(c) \/ FutureRespond(c)
        \/ UpdateStart(c) \/ UpdateFetched(c) \/ UpdateDo(c)

SpecClose == Init /\ [][NextClose]_vars

\* serve with install logging on one connection whose write loop may stop on
\* a broken wire.
NextLog ==
    \/ AcceptFirst
    \/ \E c \in Conns :
        \/ (sent < MaxLogFrames /\ ClientServe(c))
        \/ WireBreaks(c)
        \/ SendVersion(c) \/ ReadFrame(c) \/ WriteSocket(c) \/ FutureRespond(c)
        \/ ServeResolve(c) \/ ServeLock(c) \/ write_log(c) \/ ServeSetup(c)
        \/ ServeAttach(c)

SpecLog == Init /\ [][NextLog]_vars

\* update and the delegated-HTTP channel on one connection, with the
\* http_rx branch of the write loop in its two steps.
NextHttpOrder ==
    \/ AcceptFirst
    \/ \E c \in Conns :
        \/ ClientUpdate(c) \/ ClientHttpHeaders(c) \/ ClientHttpBody(c)
        \/ SendVersion(c) \/ ReadFrame(c) \/ ReadSend(c)
        \/ WriteSocket(c) \/ WriteHttpInsert(c) \/ WriteHttpEmit(c)
        \/ FutureRespond(c)
        \/ UpdateStart(c) \/ UpdateFetched(c) \/ UpdateDo(c) \/ HttpMakeRequest(c)

SpecHttpOrder == Init /\ [][NextHttpOrder]_vars

\* ------------------------------------------------------------------ claims
Ids == 1..(MaxFrames + 1)
\* The response frames with id k written on connection c.
Responses(c, k) ==
    {n \in DOMAIN outbound[c] : outbound[c][n].kind = "response" /\ outbound[c][n].id = k}
DispatchedWithId(c, k) == \E fr \in dispatched[c] : fr.id = k
KindOf(fr) == Lookup(fr.method).kind

\* C1: on a connection that stays open, every dispatched request with id k
\* gets exactly one response frame with id k, whatever the kind of its
\* handler: never more than one, never one for an id that was not dispatched
\* (so a request without an id causes none), and eventually one.
C1_ExactlyOneResponse ==
    /\ [](\A c \in Conns :
            /\ \A n \in DOMAIN outbound[c] :
                 outbound[c][n].kind = "response" => DispatchedWithId(c, outbound[c][n].id)
            /\ \A k \in Ids : Cardinality(Responses(c, k)) <= 1)
    /\ \A c \in Conns : \A k \in Ids :
          DispatchedWithId(c, k) ~> (Cardinality(Responses(c, k)) = 1)

\* A request served by a sync handler and one served by a duplex handler have
\* each got their response, and the future of an async notification has
\* finished without one.
C1_Witness ==
    \E c \in Conns :
        /\ \A kind \in {"sync", "duplex"} :
             \E fr \in dispatched[c] :
                fr.id # 0 /\ KindOf(fr) = kind /\ Cardinality(Responses(c, fr.id)) = 1
        /\ \E fr \in dispatched[c] : fr.id = 0 /\ KindOf(fr) = "async"
        /\ futs[c] = {} /\ socket_q[c] = <<>> /\ readPc[c] = "read"


\* A dispatched servermsg request with an id for which write_message found no
\* bridge.
Unattached(c, fr) == fr \in dispatched[c] /\ fr.method = "servermsg" /\ fr.id # 0 /\ ~fr.hit

C3_SetupAtMostOnce ==
    /\ [](\A c \in Conns :
            /\ servers[c] <= 1
            /\ \A ft \in futs[c] :
                  (ft.h = "serve" /\ ft.server # 0) => ft.server = code_server[c])
    /\ [][\A c \in Conns : code_server[c] # 0 => code_server'[c] = code_server[c]]_vars

\* One serve call has finished with the handle it stored, a second one has
\* taken the same handle from the slot, and a third waits for the mutex.
C3_Witness ==
    \E c \in Conns : \E f1, f2, f3 \in futs[c] :
        /\ f1.h = "serve" /\ f1.pc = "respond" /\ f1.res = "ok"
        /\ f2.h = "serve" /\ f2.pc = "attach" /\ cs_lock[c] = f2.fid
        /\ f3.h = "serve" /\ f3.pc = "lock"
        /\ f1.server = code_server[c] /\ f2.server = code_server[c]
        /\ code_server[c] # 0

\* C9: for one socket_id, the bodies handed to the bridge's write are bodies
\* of servermsg frames for that socket_id, in the order the frames arrived
\* (bodies are numbered in arrival order).
C9_BridgeOrder ==
    \A c \in Conns : \A i \in SocketIds :
        LET b == bridge_in[c][i] IN
        /\ \A m, n \in DOMAIN b : m < n => b[m] < b[n]
        /\ \A n \in DOMAIN b : \E fr \in dispatched[c] :
              fr.method = "servermsg" /\ fr.i = i /\ fr.body = b[n]

\* Two servermsg frames have been handed to the same bridge.
C9_Witness ==
    \E c \in Conns : \E i \in SocketIds : Len(bridge_in[c][i]) >= 2

\* C4: once an update call has set a connection's did_update and the client
\* has closed its stream (reads return 0 bytes) while the accept loop runs
\* and the read task still reads, the accept loop eventually returns Respawn.
C4_RespawnAfterEof ==
    \A c \in Conns :
        (/\ did_update[c] /\ stream[c] = "eof" /\ acceptPc = "running"
         /\ readPc[c] \in {"send_version", "read", "decode"})
            ~> (outcome = "Respawn")

\* C10: the outcome the accept loop returns is fixed by the event that ends
\* it: Respawn for a Respawn signal, Restart for RpcRestartRequested and Exit
\* for any other shutdown signal, Restart for the closed port; while the last
\* event is an accepted stream or a port-forwarding event the loop runs.
C10_OutcomeByEvent ==
    /\ acceptPc = "running" => outcome = "none"
    /\ lastEvent \in {"accept", "forwarding"} => acceptPc = "running"
    /\ acceptPc = "returned" =>
        /\ lastEvent \in {"respawn", "shutdown", "port_closed"}
        /\ lastEvent = "respawn" => outcome = "Respawn"
        /\ lastEvent = "port_closed" => outcome = "Restart"
        /\ lastEvent = "shutdown" =>
            /\ shutdown_rx \in ShutdownSignals
            /\ shutdown_rx = "RpcRestartRequested" => outcome = "Restart"
            /\ shutdown_rx # "RpcRestartRequested" => outcome = "Exit"

\* The loop has ended on a restart request after it accepted a stream and
\* processed a port-forwarding event.
C10_Witness ==
    /\ acceptPc = "returned" /\ lastEvent = "shutdown"
    /\ shutdown_rx = "RpcRestartRequested" /\ outcome = "Restart"
    /\ accepted = 1 /\ forwarding = 0 /\ port = "closed"
    /\ \E c \in Conns : did_update[c]

PendingIds(c) == {e.req_id : e \in http_requests[c]}
IsHttpBody(fr) == Lookup(fr.method).handler = "httpbody"

\* C5: when the HttpBodyParams handler runs for a req_id that is in the
\* pending table, the req_id is absent from the table afterwards if the
\* delivery has complete = true and still in the table if it has
\* complete = false.
C5_CompleteRemovesEntry ==
    [][\A c \in Conns : \A fr \in dispatched'[c] \ dispatched[c] :
          (IsHttpBody(fr) /\ fr.i \in PendingIds(c)) =>
              IF fr.flag THEN fr.i \notin PendingIds(c)'
              ELSE fr.i \in PendingIds(c)']_vars

\* Request 0 was written and entered in the table, its headers were
\* delivered, and the body delivery with complete = true has removed it: its
\* awaiter has seen the end of the body.
C5_Witness ==
    \E c \in Conns :
        /\ \E n \in DOMAIN outbound[c] : outbound[c][n] = MakeHttpReq(0)
        /\ \E fr \in dispatched[c] : IsHttpBody(fr) /\ fr.i = 0 /\ fr.flag
        /\ 0 \notin PendingIds(c)
        /\ \E ft \in futs[c] : ft.http = "eof"

\* C6: once a connection has torn down (its read task has disposed the
\* context and its write loop has exited) no entry remains in the pending
\* table and no awaiter still waits for a delegated response.
C6_TeardownDrainsPending ==
    \A c \in Conns :
        (readPc[c] = "done" /\ writePc[c] = "exited") =>
            /\ http_requests[c] = {}
            /\ \A ft \in futs[c] : ft.http \notin {"wait_headers", "wait_body"}

\* C8: the first frame written to a connection's outbound stream is the
\* version client-request.
C8_VersionFirst ==
    \A c \in Conns : outbound[c] # <<>> => outbound[c][1] = VersionFrame

\* C7: when handle_spawn has returned its SpawnResult, every byte the child
\* emitted on stdout and stderr has been copied to the caller's sinks.
C7_OutputCopiedBeforeReturn ==
    spawnPc = "returned" =>
        /\ pipe_out = 0 /\ pipe_err = 0
        /\ sink_out + sink_err = emitted

\* C11: once the write loop of a connection has exited, the read loop
\* eventually stops and the connection's teardown runs to its end, also when
\* the client, still connected, sends nothing more.
C11_ReadLoopCancelled ==
    \A c \in Conns :
        (writePc[c] = "exited") ~> (readPc[c] = "done" /\ disposed[c])

\* C12: once reads of the inbound stream return zero bytes, the read loop
\* eventually terminates, the write loop terminates and the multiplexer is
\* disposed.
C12_EofCloses ==
    \A c \in Conns :
        (stream[c] = "eof") ~>
            (readPc[c] = "done" /\ writePc[c] = "exited" /\ disposed[c])

\* C13: no method name is bound to two handlers, and unforward is bound only
\* to the port-unforward operation: a dispatched unforward frame starts the
\* async port-unforward handler and leaves the pending delegated-HTTP table
\* alone.
C13_NoNameBoundTwice ==
    [][\A c \in Conns : \A fr \in dispatched'[c] \ dispatched[c] :
          fr.method = "unforward" =>
              /\ \A a, b \in DOMAIN Registrations :
                    Registrations[a].name = Registrations[b].name => a = b
              /\ \E ft \in futs'[c] : ft.fid = fr.seq /\ ft.h = "unforward"
              /\ http_requests'[c] = http_requests[c]]_vars

SetupErrors == {"Wrapped", "MismatchedLaunchMode"}
SameCall(c, ft) == {n \in futs'[c] : n.fid = ft.fid}

\* C14: when a serve call fails in do_setup! (the slot is empty), the call
\* ends with that error, the code_server slot is still empty, the mutex is
\* free and no bridge has been registered.
C14_FailedSetupLeavesSlotEmpty ==
    [][\A c \in Conns : \A ft \in futs[c] :
          (ft.h = "serve" /\ ft.pc = "setup" /\ ft \notin futs'[c]) =>
              \A n \in SameCall(c, ft) :
                  n.pc = "respond" =>
                      /\ n.res \in SetupErrors
                      /\ code_server[c] = 0 /\ code_server'[c] = 0
                      /\ cs_lock'[c] = 0
                      /\ bridges'[c] = bridges[c]]_vars

\* A serve call failed on a server in a non-socket launch mode, and a later
\* serve call on the connection ran setup, filled the slot and attached its
\* bridge.
C14_Witness ==
    \E c \in Conns :
        /\ \E n \in DOMAIN outbound[c] :
              outbound[c][n].kind = "response"
              /\ outbound[c][n].res = "MismatchedLaunchMode"
        /\ code_server[c] # 0 /\ cs_lock[c] = 0 /\ bridges[c] # {}

ErrorOutcome(c) ==
    \/ \E fr \in dispatched[c] : fr.id # 0 /\ KindOf(fr) = "none"
    \/ \E n \in DOMAIN outbound[c] :
          outbound[c][n].kind = "response" /\ outbound[c][n].res # "ok"
PingPending(c, k) ==
    \E n \in DOMAIN inbound[c] : inbound[c][n].method = "ping" /\ inbound[c][n].id = k
Written(c, m) == \E n \in DOMAIN outbound[c] : outbound[c][n] = m

\* C15: no dispatch outcome closes the connection: the read loop keeps
\* reading and the write loop keeps writing, and a ping with an id that
\* follows an unknown method or a failed handler still gets its success
\* response.
C15_DispatchKeepsOpen ==
    /\ [](\A c \in Conns :
            /\ readPc[c] \in {"none", "send_version", "read", "send"}
            /\ writePc[c] \in {"none", "running"})
    /\ \A c \in Conns : \A k \in Ids \ {0} :
          (ErrorOutcome(c) /\ PingPending(c, k)) ~> Written(c, Response(k, "ok"))

\* An unknown method got MethodNotFound, a forward call got its handler's
\* error, and the ping sent after them got its success response.
C15_Witness ==
    \E c \in Conns :
        /\ \E k \in Ids : Written(c, Response(k, "MethodNotFound"))
        /\ \E k \in Ids : Written(c, Response(k, "Wrapped"))
        /\ \E fr \in dispatched[c] :
              /\ fr.method = "ping" /\ fr.seq = MaxFrames /\ fr.id # 0
              /\ Written(c, Response(fr.id, "ok"))

\* C16: when a complete inbound frame cannot be deserialized as an RPC
\* envelope, the read loop ends with an InvalidRpcData error, which it hands
\* to the write loop as the reason of a CloseWith.
C16_UndecodableCloses ==
    [][\A c \in Conns : \A fr \in dispatched'[c] \ dispatched[c] :
          fr.method = Undecodable =>
              /\ readPc'[c] = "close_with"
              /\ readHold'[c] = CloseWith("InvalidRpcData")]_vars

StartsUpdate(c) == {ft \in futs'[c] : ft.pc = "do_update"} \ futs[c]

\* C17: did_update of a connection never goes from true back to false, and
\* while it is true no update call starts the updater's do_update.
C17_DidUpdateMonotone ==
    [][\A c \in Conns :
          did_update[c] => (did_update'[c] /\ StartsUpdate(c) = {})]_vars

\* The first update call set did_update and then failed in do_update; the
\* second call, which asked for no update, returned a result; the flag is
\* still set.
C17_Witness ==
    \E c \in Conns :
        /\ did_update[c] /\ sent = 2
        /\ \E a, b \in dispatched[c] :
              /\ a.method = "update" /\ a.flag /\ a.id # 0
              /\ b.method = "update" /\ ~b.flag /\ b.id # 0 /\ a.seq < b.seq
              /\ Written(c, Response(a.id, "Wrapped"))
              /\ Written(c, Response(b.id, "ok"))

\* C18: a serve call holds the code_server mutex only while it reads or
\* fills the slot: it does not hold it while it creates and registers its
\* bridge.
C18_MutexFreeDuringAttach ==
    \A c \in Conns : \A ft \in futs[c] :
        (ft.h = "serve" /\ ft.pc = "attach") => cs_lock[c] # ft.fid

\* C19: once the teardown of a connection has disposed the multiplexer, the
\* multiplexer holds no bridge.
C19_NoBridgeAfterDispose ==
    \A c \in Conns : disposed[c] => bridges[c] = {}

\* The error texts the read task can end with in a state: a rejected frame,
\* a failed read, the exit barrier.
CloseCauses(c) ==
    (IF inbound[c] # <<>> /\ Head(inbound[c]).method = BadFrame THEN {"codec"} ELSE {})
    \cup (IF inbound[c] = <<>> /\ stream[c] = "err" THEN {"io"} ELSE {})
    \cup (IF ExitBarrierOpen THEN {"eof"} ELSE {})
CloseWithsQueued(c) ==
    {k \in DOMAIN socket_q[c] : socket_q[c][k].kind = "CloseWith"}
\* A step in which connection c's read task ends or its write loop exits.
ClosingStep(c) ==
    \/ readPc'[c] # readPc[c] /\ readPc'[c] \in {"close_with", "teardown", "dispose", "done"}
    \/ writePc'[c] # writePc[c]

\* C20: a read task that ends with an I/O error, a codec error or the exit
\* barrier queues, while the write loop runs, exactly one CloseWith carrying
\* that error's text; the write loop writes nothing while the CloseWith heads
\* its queue, exits when it dequeues it and writes nothing afterwards; and a
\* closing step of one connection changes neither the accept loop nor any
\* other connection.
C20_CloseWithEndsConnection ==
    /\ [][\A c \in Conns :
        /\ (readPc[c] = "read" /\ readPc'[c] = "close_with")
              => \E t \in CloseCauses(c) : readHold'[c] = CloseWith(t)
        /\ (readPc[c] = "close_with" /\ readPc'[c] # "close_with"
                /\ writePc[c] = "running")
              => socket_q'[c] = Append(socket_q[c], readHold[c])
        /\ Cardinality(CloseWithsQueued(c)) <= 1
        /\ (writePc[c] = "running" /\ socket_q[c] # <<>>
                /\ Head(socket_q[c]).kind = "CloseWith")
              => /\ outbound'[c] = outbound[c]
                 /\ Len(socket_q'[c]) < Len(socket_q[c]) => writePc'[c] = "exited"
        /\ writePc[c] = "exited"
              => outbound'[c] = outbound[c] /\ writePc'[c] = "exited"
        /\ ClosingStep(c)
              => /\ acceptPc' = acceptPc
                 /\ server_rx' # server_rx => did_update[c] /\ readPc[c] = "teardown"
                 /\ \A d \in Conns \ {c} :
                       /\ readPc'[d] = readPc[d] /\ writePc'[d] = writePc[d]
                       /\ socket_q'[d] = socket_q[d] /\ outbound'[d] = outbound[d]
                       /\ stream'[d] = stream[d] /\ wire'[d] = wire[d]]_vars
    /\ [][acceptPc' # acceptPc =>
            \/ lastEvent' = "shutdown"
            \/ \E c \in Conns : did_update[c] /\ readPc[c] \in {"dispose", "done"}]_vars

\* C20 as stated: whatever the connection did before its read side failed,
\* the accept loop keeps running, so only an outer shutdown ends it.
C20_AcceptLoopKeepsRunning ==
    [][acceptPc' # acceptPc => lastEvent' = "shutdown"]_vars

\* One connection ended by a read error with the response of its forward
\* call dropped, while the accept loop and the other connection still run.
C20_Witness ==
    \E c \in Conns, d \in Conns :
        /\ c # d /\ acceptPc = "running"
        /\ readPc[d] = "read" /\ writePc[d] = "running"
        /\ stream[c] = "err" /\ readPc[c] = "done" /\ writePc[c] = "exited"
        /\ futs[c] = {}
        /\ \E fr \in dispatched[c] :
              fr.method = "forward" /\ fr.id # 0 /\ Responses(c, fr.id) = {}

Queued(c, m) == \E k \in DOMAIN socket_q[c] : socket_q[c][k] = m
Installing(c) ==
    {ft \in futs[c] : ft.h = "serve" /\ ft.pc = "setup" /\ ft.logs < MaxLogs}

\* C21: writing a serverlog line never waits: an install that has a line to
\* log can always log it, whatever the state of the write queue; when the
\* queue holds SOCKET_CHANNEL_CAP messages the line is dropped and the queue
\* is unchanged, and when it has room the line is appended.
C21_LogNeverBlocks ==
    /\ [](\A c \in Conns : Installing(c) # {} => ENABLED write_log(c))
    /\ [][\A c \in Conns : \A ft \in futs[c] : \A n \in futs'[c] :
            (n.fid = ft.fid /\ n.logs = ft.logs + 1)
            => /\ n.pc = ft.pc
               /\ Len(socket_q[c]) = SOCKET_CHANNEL_CAP => socket_q'[c] = socket_q[c]
               /\ (Len(socket_q[c]) < SOCKET_CHANNEL_CAP /\ writePc[c] = "running")
                     => socket_q'[c] = Append(socket_q[c], ServerLog(n.logs))]_vars

\* An install has logged a line while the queue was full: the line is
\* neither queued nor written, and the install has gone on to log the next.
C21_Witness ==
    \E c \in Conns : \E ft \in futs[c] : \E k \in 1..MaxLogs :
        /\ ft.h = "serve" /\ ft.pc = "setup" /\ k < ft.logs
        /\ writePc[c] = "running" /\ wire[c] = "ok"
        /\ ~Queued(c, ServerLog(k)) /\ ~Written(c, ServerLog(k))
        /\ Queued(c, ServerLog(ft.logs))

\* The req_ids of the makehttpreq frames written on connection c.
WrittenReqIds(c) ==
    {outbound[c][n].i : n \in {k \in DOMAIN outbound[c] : outbound[c][k].kind = "makehttpreq"}}
\* The frame a step appends to connection c's outbound stream, if any.
NewlyWritten(c) ==
    IF Len(outbound'[c]) = Len(outbound[c]) + 1
    THEN {outbound'[c][Len(outbound'[c])]} ELSE {}

\* The client has already sent, and the read task handled, a final body
\* delivery naming req_id r.
CompletedByClient(c, r) ==
    \E fr \in dispatched[c] : IsHttpBody(fr) /\ fr.i = r /\ fr.flag

\* C22: the write loop gives every delegated request a req_id no earlier
\* request had, enters it in the pending table and only then writes the
\* makehttpreq frame: at the step that writes makehttpreq r, r was written on
\* no connection before and its entry has been inserted; the entry is still
\* in the pending table unless the client has completed r before seeing the
\* frame.
C22_EntryInsertedBeforeFrame ==
    [][\A c \in Conns :
        /\ \A r \in PendingIds(c)' \ PendingIds(c) :
              /\ r = message_id /\ message_id' = message_id + 1
              /\ \A d \in Conns : r \notin PendingIds(d) \cup WrittenReqIds(d)
        /\ \A m \in NewlyWritten(c) :
              m.kind = "makehttpreq"
              => /\ m.i \in PendingIds(c) \/ CompletedByClient(c, m.i)
                 /\ m.i < message_id
                 /\ \A d \in Conns : m.i \notin WrittenReqIds(d)]_vars

\* C22 as stated: at the step that writes makehttpreq r, r is in the pending
\* table, whatever the client has sent so far.
C22_EntryPresentAtWrite ==
    [][\A c \in Conns :
        /\ \A r \in PendingIds(c)' \ PendingIds(c) :
              /\ r = message_id /\ message_id' = message_id + 1
              /\ \A d \in Conns : r \notin PendingIds(d) \cup WrittenReqIds(d)
        /\ \A m \in NewlyWritten(c) :
              m.kind = "makehttpreq"
              => /\ m.i \in PendingIds(c)
                 /\ \A d \in Conns : m.i \notin WrittenReqIds(d)]_vars

\* Two delegated requests were written with different req_ids, the second
\* still pending.
C22_Witness ==
    \E c \in Conns :
        /\ WrittenReqIds(c) = {0, 1}
        /\ 1 \in PendingIds(c)
        /\ writePc[c] = "running"

Updating(c) == {ft \in futs[c] : ft.h = "update" /\ ft.pc = "do_update"}

\* C23: however concurrent update calls interleave, at most one call of a
\* connection ever runs the updater's do_update: a call starts it only by
\* turning did_update from false to true, alone in its step, the flag never
\* turns back, and a call that finds the flag set ends with a result instead.
C23_AtMostOneDoUpdate ==
    /\ [](\A c \in Conns : Cardinality(Updating(c)) <= 1)
    /\ [][\A c \in Conns :
            /\ did_update[c] => did_update'[c]
            /\ StartsUpdate(c) # {}
                  => /\ ~did_update[c] /\ did_update'[c]
                     /\ Cardinality(StartsUpdate(c)) = 1
            /\ \A ft \in futs[c] : \A n \in futs'[c] :
                  (n.fid = ft.fid /\ ft.h = "update" /\ ft.pc \in {"start", "fetch"}
                      /\ n.pc # ft.pc /\ did_update[c])
                  => n.pc = "respond" /\ n.res \in {"ok", "Wrapped"}]_vars

\* Two update calls asked for the update: the first is running do_update,
\* the second, dispatched later, has its result written.
C23_Witness ==
    \E c \in Conns : \E ft \in Updating(c) :
        \E a, b \in dispatched[c] :
            /\ a.method = "update" /\ a.flag /\ a.id = ft.id /\ a.id # 0
            /\ b.method = "update" /\ b.flag /\ b.id # 0 /\ a.seq < b.seq
            /\ Written(c, Response(b.id, "ok"))

====
